---- MODULE Spec2Model ----
(***************************************************************************)
(* Model of functional_analyze_root_causes (src/code/kstest.py), the       *)
(* KS-test root-cause ranking of the petshop dataset.  The call is a       *)
(* pipeline of the six numbered steps of the function body; every step is  *)
(* one action and pc is the position of the call.  The state after         *)
(* construction is the state after the two reduce_df calls (lines 26-27):  *)
(* two reduced tables, one column per node.                                *)
(*                                                                         *)
(* Numbers are IEEE doubles modelled as exact rationals <<n, d>> with      *)
(* d > 0, extended with NaN = <<0,0>>, +inf = <<1,0>>, -inf = <<-1,0>>.    *)
(* Rounding is not modelled.                                               *)
(***************************************************************************)
EXTENDS Integers, Sequences, FiniteSets, TLC

VARIABLES pc, target_metric, normal_metrics, abnormal_metrics,
          hash_order, common_columns, result_df, percentage_change,
          top_columns_percentage, ks_scores, sorted_columns_by_ks,
          potential_root_causes, stdout, fault

vars == <<pc, target_metric, normal_metrics, abnormal_metrics,
          hash_order, common_columns, result_df, percentage_change,
          top_columns_percentage, ks_scores, sorted_columns_by_ks,
          potential_root_causes, stdout, fault>>

(***************************************************************************)
(* Bounds of the model and constants of the program.                       *)
(***************************************************************************)
MaxNormalRows == 1
MaxAbnormalRows == 1
MaxVal == 2
MaxWideCols == 11
MaxSeriesCols == 7
WideNormalRows == 3
WindowRows == 5
TopN == 10
Percent == 100

petsite_column == "PetSite"
Nodes == {"PetSite", "ServiceA", "ServiceB"}
Metrics == {"availability", "latency", "requests"}

(***************************************************************************)
(* Floating point values.                                                  *)
(***************************************************************************)
NaN == <<0, 0>>

IsNaN(a) == a = NaN
IsFinite(a) == a[2] > 0
IsZero(a) == a[2] > 0 /\ a[1] = 0

Abs(i) == IF i < 0 THEN -i ELSE i
Sign(i) == IF i < 0 THEN -1 ELSE IF i > 0 THEN 1 ELSE 0

RECURSIVE GCD(_, _)
GCD(a, b) == IF b = 0 THEN a ELSE GCD(b, a % b)

\* the double nearest to n/d, d # 0 (exact, in lowest terms)
Rat(n, d) ==
    LET g == GCD(Abs(n), Abs(d))
    IN  <<(Sign(d) * n) \div g, Abs(d) \div g>>

Num(i) == <<i, 1>>

\* a < b on doubles: False whenever an operand is NaN
Lt(a, b) ==
    IF IsNaN(a) \/ IsNaN(b) THEN FALSE
    ELSE IF a[2] = 0 /\ b[2] = 0 THEN a[1] < b[1]
    ELSE a[1] * b[2] < b[1] * a[2]

FNeg(a) == <<-a[1], a[2]>>

FAdd(a, b) ==
    IF IsNaN(a) \/ IsNaN(b) THEN NaN
    ELSE IF a[2] = 0 /\ b[2] = 0 THEN (IF a = b THEN a ELSE NaN)
    ELSE IF a[2] = 0 THEN a
    ELSE IF b[2] = 0 THEN b
    ELSE Rat(a[1] * b[2] + b[1] * a[2], a[2] * b[2])

FSub(a, b) == FAdd(a, FNeg(b))

FMul(a, b) ==
    IF IsNaN(a) \/ IsNaN(b) THEN NaN
    ELSE IF a[2] = 0 \/ b[2] = 0
         THEN (IF a[1] = 0 \/ b[1] = 0 THEN NaN ELSE <<Sign(a[1]) * Sign(b[1]), 0>>)
    ELSE Rat(a[1] * b[1], a[2] * b[2])

\* numpy float division: x/0 is +-inf, 0/0 is NaN, no exception
FDiv(a, b) ==
    IF IsNaN(a) \/ IsNaN(b) THEN NaN
    ELSE IF a[2] = 0 /\ b[2] = 0 THEN NaN
    ELSE IF b[2] = 0 THEN Num(0)
    ELSE IF a[2] = 0 THEN <<a[1] * (IF b[1] < 0 THEN -1 ELSE 1), 0>>
    ELSE IF b[1] = 0 THEN <<Sign(a[1]), 0>>
    ELSE Rat(a[1] * b[2], a[2] * b[1])

(***************************************************************************)
(* Sequences.                                                              *)
(***************************************************************************)
Range(s) == {s[i] : i \in 1..Len(s)}
Reverse(s) == [i \in 1..Len(s) |-> s[Len(s) + 1 - i]]
Min2(a, b) == IF a < b THEN a ELSE b
Only(S) == CHOOSE x \in S : TRUE

\* all orderings of a finite set, as sequences without repetition
Perms(S) ==
    {s \in [1..Cardinality(S) -> S] : \A i, j \in 1..Cardinality(S) : s[i] = s[j] => i = j}

\* a table: nrows rows, the columns named in columns (a sequence), col[c] the values
DataFrame(columns, nrows, col) == [columns |-> columns, nrows |-> nrows, col |-> col]

EmptyFrame == DataFrame(<<>>, 0, <<>>)

\* list(S) for a set S of column names: the iteration order of a Python set of
\* strings follows the process's string hashing, here the order of hash_order
ListOfSet(order, S) == SelectSeq(order, LAMBDA c : c \in S)

(***************************************************************************)
(* Step 1: the common columns and the two tables restricted to them.       *)
(***************************************************************************)
CommonColumns(order, normal, abnormal) ==
    ListOfSet(order, Range(normal.columns) \cap Range(abnormal.columns))

MissingDiagnostics(normal, abnormal) ==
    (IF Range(normal.columns) \ Range(abnormal.columns) # {}
     THEN {"missing_in_abnormal"} ELSE {})
    \cup
    (IF Range(abnormal.columns) \ Range(normal.columns) # {}
     THEN {"missing_in_normal"} ELSE {})

\* df.loc[:, columns]
Loc(df, columns) ==
    DataFrame(columns, df.nrows, [c \in Range(columns) |-> df.col[c]])

(***************************************************************************)
(* Step 2: pd.concat(ignore_index=True) and MinMaxScaler().fit_transform.  *)
(***************************************************************************)
Concat(a, b) ==
    DataFrame(a.columns, a.nrows + b.nrows,
              [c \in Range(a.columns) |-> a.col[c] \o b.col[c]])

\* check_array of the scaler: at least one sample and one feature
ScalerRejects(df) == df.nrows = 0 \/ Len(df.columns) = 0

\* np.nanmin, np.nanmax: over the defined values, NaN when there is none
NanMin(s) ==
    IF \A i \in 1..Len(s) : IsNaN(s[i]) THEN NaN
    ELSE s[CHOOSE i \in 1..Len(s) :
             ~IsNaN(s[i]) /\ \A j \in 1..Len(s) : ~Lt(s[j], s[i])]

NanMax(s) ==
    IF \A i \in 1..Len(s) : IsNaN(s[i]) THEN NaN
    ELSE s[CHOOSE i \in 1..Len(s) :
             ~IsNaN(s[i]) /\ \A j \in 1..Len(s) : ~Lt(s[i], s[j])]

\* _handle_zeros_in_scale: a zero data range scales by 1
HandleZeros(data_range) == IF IsZero(data_range) THEN Num(1) ELSE data_range

\* fit: data_range = data_max - data_min, scale_ = 1 / _handle_zeros_in_scale(
\* data_range), min_ = 0 - data_min * scale_; the result is <<scale_, min_>>
Fit(s) ==
    LET scale == FDiv(Num(1), HandleZeros(FSub(NanMax(s), NanMin(s))))
    IN  <<scale, FSub(Num(0), FMul(NanMin(s), scale))>>

\* transform: X * scale_ + min_
Transform(s, fitted) ==
    [i \in 1..Len(s) |-> FAdd(FMul(s[i], fitted[1]), fitted[2])]

ScaleColumn(s) == Only({Transform(s, fitted) : fitted \in {Fit(s)}})

FitTransform(df) ==
    DataFrame(df.columns, df.nrows, [c \in Range(df.columns) |-> ScaleColumn(df.col[c])])

(***************************************************************************)
(* Step 3: result_df.tail(5).                                              *)
(***************************************************************************)
Tail5(df) ==
    LET k == Min2(WindowRows, df.nrows) IN
    DataFrame(df.columns, k,
              [c \in Range(df.columns) |-> SubSeq(df.col[c], df.nrows - k + 1, df.nrows)])

(***************************************************************************)
(* Step 4: percentage change or decrease, sorted, top 10.                  *)
(***************************************************************************)
First(df, c) == df.col[c][1]
Last(df, c) == df.col[c][df.nrows]

PercentageDecrease(first, last) == FMul(FDiv(FSub(first, last), first), Num(Percent))
PercentageIncrease(first, last) == FMul(FDiv(FSub(last, first), first), Num(Percent))

\* the two sign conventions exchanged
PercentageChangeSwapped(metric, df) ==
    [c \in Range(df.columns) |->
        IF metric = "availability"
        THEN PercentageIncrease(First(df, c), Last(df, c))
        ELSE PercentageDecrease(First(df, c), Last(df, c))]

PercentageChange(metric, df) ==
    [c \in Range(df.columns) |->
        IF metric = "availability"
        THEN PercentageDecrease(First(df, c), Last(df, c))
        ELSE PercentageIncrease(First(df, c), Last(df, c))]

\* stable insertion into a sequence sorted by descending val
RECURSIVE InsertDescending(_, _, _)
InsertDescending(s, x, val) ==
    IF s = <<>> THEN <<x>>
    ELSE IF Lt(val[Head(s)], val[x]) THEN <<x>> \o s
    ELSE <<Head(s)>> \o InsertDescending(Tail(s), x, val)

RECURSIVE ArgsortDescending(_, _)
ArgsortDescending(cols, val) ==
    IF cols = <<>> THEN <<>>
    ELSE InsertDescending(ArgsortDescending(SubSeq(cols, 1, Len(cols) - 1), val),
                          cols[Len(cols)], val)

\* Series.sort_values(ascending=False): the defined values in descending order,
\* ties in index order, then the NaN entries in index order (na_position "last")
SortValuesDescending(cols, val) ==
    ArgsortDescending(SelectSeq(cols, LAMBDA c : ~IsNaN(val[c])), val)
    \o SelectSeq(cols, LAMBDA c : IsNaN(val[c]))

HeadN(s) == SubSeq(s, 1, Min2(TopN, Len(s)))

TopColumns(cols, val) == HeadN(SortValuesDescending(cols, val))

(***************************************************************************)
(* Step 5: two-sample Kolmogorov-Smirnov statistic against PetSite.        *)
(***************************************************************************)
\* empirical distribution function of a sample at v: the share of values <= v
Ecdf(data, v) ==
    Rat(Cardinality({i \in 1..Len(data) : ~Lt(v, data[i])}), Len(data))

FAbs(a) == <<Abs(a[1]), a[2]>>

\* the largest of a non-empty set of defined values
FMax(S) == CHOOSE m \in S : \A x \in S : ~Lt(m, x)

HasNaN(data) == \E i \in 1..Len(data) : IsNaN(data[i])

\* ks_2samp(data1, data2).statistic, two-sided: the largest distance between the
\* two empirical distribution functions over the pooled sample; nan_policy is
\* "propagate", so a NaN in either sample gives a NaN statistic
KsStatistic(data1, data2) ==
    IF HasNaN(data1) \/ HasNaN(data2) THEN NaN
    ELSE FMax({FAbs(FSub(Ecdf(data1, v), Ecdf(data2, v))) : v \in Range(data1 \o data2)})

\* 1 / (1 + ks_statistic)
InvertedScore(ks_statistic) == FDiv(Num(1), FAdd(Num(1), ks_statistic))

\* the loop without its "continue"
SkipsNothing(column) == FALSE

\* the loop of lines 80-88: the dict in insertion order, PetSite skipped
SkipsColumn(column) == column = petsite_column

KsScores(df, top) ==
    LET candidates == SelectSeq(top, LAMBDA c : ~SkipsColumn(c))
    IN  [i \in 1..Len(candidates) |->
           <<candidates[i],
             InvertedScore(KsStatistic(df.col[petsite_column], df.col[candidates[i]]))>>]

(***************************************************************************)
(* sorted(items, key=score, reverse=True): CPython's list sort.  A list of *)
(* fewer than 64 items is one run extended by binary insertion; the only   *)
(* comparison is key(a) < key(b).                                          *)
(***************************************************************************)
IsLt(a, b) == Lt(a[2], b[2])

RECURSIVE RunEnd(_, _, _)
RunEnd(s, n, descending) ==
    IF n < Len(s) /\ (IsLt(s[n + 1], s[n]) = descending)
    THEN RunEnd(s, n + 1, descending) ELSE n

\* count_run: the leading run, reversed in place when strictly descending;
\* the result is <<list, length of the run>>
CountRun(s) ==
    IF Len(s) < 2 THEN <<s, Len(s)>>
    ELSE LET descending == IsLt(s[2], s[1])
             n == RunEnd(s, 2, descending)
         IN  IF descending
             THEN <<Reverse(SubSeq(s, 1, n)) \o SubSeq(s, n + 1, Len(s)), n>>
             ELSE <<s, n>>

RECURSIVE Bisect(_, _, _, _)
Bisect(s, pivot, l, r) ==
    IF l >= r THEN l
    ELSE LET p == l + ((r - l) \div 2) IN
         IF IsLt(pivot, s[p]) THEN Bisect(s, pivot, l, p)
         ELSE Bisect(s, pivot, p + 1, r)

RECURSIVE BinarySort(_, _)
BinarySort(s, start) ==
    IF start > Len(s) THEN s
    ELSE LET l == Bisect(s, s[start], 1, start) IN
         BinarySort(SubSeq(s, 1, l - 1) \o <<s[start]>> \o SubSeq(s, l, start - 1)
                      \o SubSeq(s, start + 1, Len(s)),
                    start + 1)

ListSort(s) ==
    LET run == CountRun(s) IN BinarySort(run[1], run[2] + 1)

\* reverse=True: reverse, sort ascending, reverse again
SortedReverse(items) == Reverse(ListSort(Reverse(items)))

(***************************************************************************)
(* Step 6: the PotentialRootCause objects.                                 *)
(***************************************************************************)
PotentialRootCause(node, metric, score) == [node |-> node, metric |-> metric, score |-> score]

RootCauses(sorted, metric) ==
    [i \in 1..Len(sorted) |-> PotentialRootCause(sorted[i][1], metric, sorted[i][2])]

(***************************************************************************)
(* The call, step by step.                                                 *)
(***************************************************************************)
Align ==
    /\ pc = "align"
    /\ common_columns' = CommonColumns(hash_order, normal_metrics, abnormal_metrics)
    /\ stdout' = stdout \cup MissingDiagnostics(normal_metrics, abnormal_metrics)
    /\ normal_metrics' = Loc(normal_metrics, common_columns')
    /\ abnormal_metrics' = Loc(abnormal_metrics, common_columns')
    /\ pc' = "scale"
    /\ UNCHANGED <<target_metric, hash_order, result_df, percentage_change,
                   top_columns_percentage, ks_scores, sorted_columns_by_ks,
                   potential_root_causes, fault>>

ConcatScale ==
    /\ pc = "scale"
    /\ \E df \in {Concat(normal_metrics, abnormal_metrics)} :
       IF ScalerRejects(df)
       THEN /\ fault' = "ValueError"
            /\ pc' = "raised"
            /\ result_df' = df
       ELSE /\ result_df' = FitTransform(df)
            /\ pc' = "window"
            /\ UNCHANGED fault
    /\ UNCHANGED <<target_metric, normal_metrics, abnormal_metrics, hash_order,
                   common_columns, percentage_change, top_columns_percentage,
                   ks_scores, sorted_columns_by_ks, potential_root_causes, stdout>>

Window ==
    /\ pc = "window"
    /\ result_df' = Tail5(result_df)
    /\ pc' = "change"
    /\ UNCHANGED <<target_metric, normal_metrics, abnormal_metrics, hash_order,
                   common_columns, percentage_change, top_columns_percentage,
                   ks_scores, sorted_columns_by_ks, potential_root_causes, stdout,
                   fault>>

Change ==
    /\ pc = "change"
    /\ percentage_change' = PercentageChange(target_metric, result_df)
    /\ top_columns_percentage' = TopColumns(result_df.columns, percentage_change')
    /\ pc' = "rank"
    /\ UNCHANGED <<target_metric, normal_metrics, abnormal_metrics, hash_order,
                   common_columns, result_df, ks_scores, sorted_columns_by_ks,
                   potential_root_causes, stdout, fault>>

Rank ==
    /\ pc = "rank"
    /\ IF petsite_column \notin Range(result_df.columns)
       THEN /\ stdout' = stdout \cup {"petsite_not_found"}
            /\ potential_root_causes' = <<>>
            /\ pc' = "done"
            /\ UNCHANGED <<ks_scores, sorted_columns_by_ks>>
       ELSE /\ ks_scores' = KsScores(result_df, top_columns_percentage)
            /\ sorted_columns_by_ks' = SortedReverse(ks_scores')
            /\ pc' = "build"
            /\ UNCHANGED <<stdout, potential_root_causes>>
    /\ UNCHANGED <<target_metric, normal_metrics, abnormal_metrics, hash_order,
                   common_columns, result_df, percentage_change,
                   top_columns_percentage, fault>>

Build ==
    /\ pc = "build"
    /\ potential_root_causes' = RootCauses(sorted_columns_by_ks, target_metric)
    /\ pc' = "done"
    /\ UNCHANGED <<target_metric, normal_metrics, abnormal_metrics, hash_order,
                   common_columns, result_df, percentage_change,
                   top_columns_percentage, ks_scores, sorted_columns_by_ks, stdout,
                   fault>>

Next == Align \/ ConcatScale \/ Window \/ Change \/ Rank \/ Build

(***************************************************************************)
(* The calls explored.  Every call starts with nothing computed.           *)
(***************************************************************************)
Start(metric, normal, abnormal, order) ==
    /\ pc = "align"
    /\ target_metric = metric
    /\ normal_metrics = normal
    /\ abnormal_metrics = abnormal
    /\ hash_order = order
    /\ common_columns = <<>>
    /\ result_df = EmptyFrame
    /\ percentage_change = <<>>
    /\ top_columns_percentage = <<>>
    /\ ks_scores = <<>>
    /\ sorted_columns_by_ks = <<>>
    /\ potential_root_causes = <<>>
    /\ stdout = {}
    /\ fault = "none"

\* the observations of one column: a number in 0..MaxVal or missing
Values == {Num(v) : v \in 0..MaxVal} \cup {NaN}

NodeList == <<"PetSite", "ServiceA", "ServiceB">>

Zeros(n) == [i \in 1..n |-> Num(0)]

\* the reduced table with the columns cols whose rows are the rows from..to of
\* series; a column outside shared is never read by the call and holds zeros
TableOf(names, cols, shared, series, from, to) ==
    DataFrame(ListOfSet(names, cols), to - from + 1,
              [c \in cols |-> IF c \in shared THEN SubSeq(series[c], from, to)
                              ELSE Zeros(to - from + 1)])

\* every pair of tables over up to three nodes, every value, every set order
InitSmall ==
    \E metric \in Metrics, ncols \in SUBSET Nodes, acols \in SUBSET Nodes,
       n \in 0..MaxNormalRows, a \in 0..MaxAbnormalRows :
      \E order \in Perms(ncols \cap acols),
         series \in [ncols \cap acols -> [1..(n + a) -> Values]] :
        Start(metric,
              TableOf(NodeList, ncols, ncols \cap acols, series, 1, n),
              TableOf(NodeList, acols, ncols \cap acols, series, n + 1, n + a),
              order)

Spec == InitSmall /\ [][Next]_vars

(***************************************************************************)
(* Tables of many columns.  Every column holds one of five six-row series: *)
(* rising, falling, constant, rising with a missing observation, and       *)
(* recovering from the minimum.  The set order is the order of the names;  *)
(* as every assignment of series to the services is explored, the services *)
(* are met in every order.                                                 *)
(***************************************************************************)
ServiceNames ==
    <<"Service01", "Service02", "Service03", "Service04", "Service05", "Service06",
      "Service07", "Service08", "Service09", "Service10", "Service11", "Service12",
      "Service13">>

Rising == <<Num(0), Num(1), Num(1), Num(2), Num(2), Num(2)>>
Falling == <<Num(0), Num(2), Num(2), Num(1), Num(1), Num(1)>>
Constant == <<Num(1), Num(1), Num(1), Num(1), Num(1), Num(1)>>
Gappy == <<Num(0), Num(1), NaN, Num(2), Num(2), Num(2)>>
Recovering == <<Num(1), Num(0), Num(0), Num(1), Num(1), Num(1)>>

SeriesRows == Len(Rising)

Services(k) == {ServiceNames[i] : i \in 1..k}

StartSeries(metric, k, mine, theirs) ==
    LET cols == {petsite_column} \cup Services(k)
        names == <<petsite_column>> \o ServiceNames
        series == [c \in cols |-> IF c = petsite_column THEN mine ELSE theirs[c]]
        n == Min2(WideNormalRows, SeriesRows)
    IN  Start(metric,
              TableOf(names, cols, cols, series, 1, n),
              TableOf(names, cols, cols, series, n + 1, SeriesRows),
              ListOfSet(names, cols))

\* PetSite and up to MaxWideCols - 1 services that fall, or recover from their
\* minimum at the start of the window
InitWide ==
    \E metric \in Metrics, k \in 0..(MaxWideCols - 1), mine \in {Rising, Falling} :
      \E theirs \in [Services(k) -> {Falling, Recovering}] :
        StartSeries(metric, k, mine, theirs)

\* a constant PetSite and up to MaxSeriesCols services, some with a missing value
InitSeries ==
    \E metric \in {"availability", "latency"}, k \in 0..MaxSeriesCols :
      \E theirs \in [Services(k) -> {Rising, Constant, Gappy}] :
        StartSeries(metric, k, Constant, theirs)

InitLarge == InitWide \/ InitSeries

SpecLarge == InitLarge /\ [][Next]_vars

(***************************************************************************)
(* The whole call as a function of its inputs and of the set order: the    *)
(* fault raised, or the sequence returned.                                 *)
(***************************************************************************)
Ranked(metric, window) ==
    IF petsite_column \notin Range(window.columns) THEN <<>>
    ELSE RootCauses(
           SortedReverse(
             KsScores(window,
                      TopColumns(window.columns, PercentageChange(metric, window)))),
           metric)

Analyze(metric, normal, abnormal, order) ==
    LET common == CommonColumns(order, normal, abnormal)
        df == Concat(Loc(normal, common), Loc(abnormal, common))
    IN  IF ScalerRejects(df) THEN [fault |-> "ValueError", returned |-> <<>>]
        ELSE [fault |-> "none", returned |-> Ranked(metric, Tail5(FitTransform(df)))]

(***************************************************************************)
(* Properties.                                                             *)
(***************************************************************************)
ColumnIntersection == Range(normal_metrics.columns) \cap Range(abnormal_metrics.columns)
TotalRows == normal_metrics.nrows + abnormal_metrics.nrows
Returned == pc = "done"
ChangeComputed == pc \in {"rank", "build", "done"}
Score(i) == potential_root_causes[i].score
Node(i) == potential_root_causes[i].node
IsDefined(a) == ~IsNaN(a)
Le(a, b) == IsDefined(a) /\ IsDefined(b) /\ ~Lt(b, a)
Position(seq, x) == CHOOSE i \in 1..Len(seq) : seq[i] = x

\* C1: when the two tables share no column, the call raises no fault and
\* returns the empty sequence (stated for the calls that have printed both
\* missing-column diagnostics, on tables with a row).
EmptyIntersectionReturnsEmpty ==
    (/\ ColumnIntersection = {}
     /\ {"missing_in_abnormal", "missing_in_normal"} \subseteq stdout
     /\ TotalRows > 0) =>
        /\ fault = "none"
        /\ Returned => potential_root_causes = <<>>

\* C2: when the tables share columns but not PetSite, the call raises no fault
\* and returns the empty sequence, whatever the metric and the values.
MissingReferenceReturnsEmpty ==
    (ColumnIntersection # {} /\ petsite_column \notin ColumnIntersection) =>
        /\ fault = "none"
        /\ Returned => potential_root_causes = <<>>

\* C3: the returned sequence is in descending order of score: no defined score
\* stands before a larger defined score (missing values in the window included).
ScoresDescending ==
    Returned =>
        \A i, j \in 1..Len(potential_root_causes) :
            (i < j /\ IsDefined(Score(i)) /\ IsDefined(Score(j))) => ~Lt(Score(i), Score(j))

\* C4: every returned score is 1/(1+D) for the distance D >= 0 between the
\* windows of PetSite and of the node, lies in (0, 1], and is 1 only when D = 0.
ScoresInUnitInterval ==
    Returned =>
        \A i \in 1..Len(potential_root_causes) :
            LET D == KsStatistic(result_df.col[petsite_column], result_df.col[Node(i)])
            IN  /\ Le(Num(0), D)
                /\ Score(i) = FDiv(Num(1), FAdd(Num(1), D))
                /\ Lt(Num(0), Score(i))
                /\ Le(Score(i), Num(1))
                /\ Score(i) = Num(1) => D = Num(0)

\* C5: the returned sequence is the same for every iteration order of the set
\* of common columns (stated for tables without missing values).
ResultIndependentOfSetOrder ==
    (Returned /\ \A c \in ColumnIntersection : ~HasNaN(result_df.col[c])) =>
        \A order \in Perms(ColumnIntersection) :
            Analyze(target_metric, normal_metrics, abnormal_metrics, order).returned
                = potential_root_causes

\* C6: a column whose first window row is zero gets a defined, finite
\* percentage change.
ZeroFirstChangeDefined ==
    ChangeComputed =>
        \A c \in Range(result_df.columns) :
            IsZero(First(result_df, c)) => IsFinite(percentage_change[c])

\* C7: under "availability" a column that drops from a positive first value has
\* a strictly positive change, under every other metric a column that rises has
\* one; the candidates are the columns in descending order of the change (the
\* undefined changes last), the ten first of them when there are more.
ChangeFilterConvention ==
    ChangeComputed =>
        LET cols == Range(result_df.columns)
            top == top_columns_percentage
            change == percentage_change
        IN  /\ \A c \in cols :
                 /\ (target_metric = "availability"
                       /\ Lt(Last(result_df, c), First(result_df, c))
                       /\ Lt(Num(0), First(result_df, c)))
                    => Lt(Num(0), change[c])
                 /\ (target_metric # "availability"
                       /\ Lt(First(result_df, c), Last(result_df, c)))
                    => Lt(Num(0), change[c])
            /\ Len(top) = Min2(TopN, Cardinality(cols))
            /\ Range(top) \subseteq cols
            /\ \A i, j \in 1..Len(top) :
                 i < j => /\ top[i] # top[j]
                          /\ ~Lt(change[top[i]], change[top[j]])
                          /\ IsNaN(change[top[i]]) => IsNaN(change[top[j]])
            /\ \A c \in Range(top), e \in cols \ Range(top) :
                 /\ ~Lt(change[c], change[e])
                 /\ IsNaN(change[c]) => IsNaN(change[e])

\* a table of more than ten columns under "availability" with a dropping column:
\* the cut to ten candidates and the decrease convention both act
ChangeFilterCuts ==
    /\ pc = "rank"
    /\ target_metric = "availability"
    /\ Len(result_df.columns) > TopN
    /\ Len(top_columns_percentage) = TopN
    /\ \E c \in Range(top_columns_percentage) :
         /\ Lt(Last(result_df, c), First(result_df, c))
         /\ Lt(Num(0), percentage_change[c])
    /\ \E c \in Range(result_df.columns) : Lt(percentage_change[c], Num(0))

\* C8: with fewer than five rows in the combined table (and a shared column),
\* the call raises no fault and returns its sequence.
ShortTableNoFault ==
    (TotalRows < WindowRows /\ ColumnIntersection # {}) => fault = "none"

\* C9: no returned element names PetSite; there are at most ten elements, at
\* most nine when PetSite is a candidate, each with the target metric.
ReferenceExcluded ==
    Returned =>
        /\ \A i \in 1..Len(potential_root_causes) :
             /\ Node(i) # petsite_column
             /\ potential_root_causes[i].metric = target_metric
        /\ Len(potential_root_causes) <= TopN
        /\ petsite_column \in Range(top_columns_percentage)
             => Len(potential_root_causes) <= TopN - 1

\* PetSite among the ten candidates of a wider table: nine elements returned
ReferenceSkipped ==
    /\ Returned
    /\ Len(result_df.columns) > TopN
    /\ petsite_column \in Range(top_columns_percentage)
    /\ Len(potential_root_causes) = TopN - 1

\* C10: two returned candidates with equal score stand in the order they had in
\* the candidate sequence of the change filter.
EqualScoresKeepOrder ==
    Returned =>
        \A i, j \in 1..Len(potential_root_causes) :
            (i < j /\ Score(i) = Score(j) /\ IsDefined(Score(i))) =>
                Position(top_columns_percentage, Node(i))
                    < Position(top_columns_percentage, Node(j))

====
